---- MODULE Spec2Model ----
(***************************************************************************)
(* Model of the payout and missed-shift report handlers of ecp:            *)
(*   src/app/api/calculate/route.ts   whole-dataset payout report          *)
(*   src/unnamed/part_000             per-location payout report + client  *)
(*   src/app/api/crossref/route.ts    missed-shift reconciliation          *)
(*                                                                         *)
(* Strings are sequences of one-character strings, so that trim,           *)
(* toLowerCase, the currency regex, parseFloat, the key join and           *)
(* localeCompare are computed character by character as the code does.     *)
(*                                                                         *)
(* Numbers are JavaScript floating-point numbers.  The model keeps the     *)
(* IEEE-754 rounding rule (round to nearest, ties to even, after every     *)
(* operation) on a scaled-down binary format: MantissaBits significant     *)
(* bits instead of 53, and a smallest positive value of one half instead   *)
(* of 2^-1074.  Every number, amounts and counts alike, is stored as the   *)
(* integer count of halves it holds: 13.5 is 27, 28.5 is 57, 2 shifts is 4.*)
(***************************************************************************)
EXTENDS Integers, Sequences, FiniteSets, TLC

VARIABLES
    page,        \* which response the browser shows: "none", "calc", "loc", "crossref"
    status,      \* HTTP status of the response: 0 before any request, 200, 400
    parsed,      \* csvParse(csvText) of the payout upload: sequence of raw records
    summaryRows, \* server-computed summary rows (calculate: l.112-121, location: l.103-108)
    totals,      \* [amount, shifts, avg] (calculate: l.124-126, location: l.110-112)
    DATA_ROWS,   \* per-shift snapshot emitted to the client (part_000 l.92, l.231)
    DATA_LOCATIONS, \* sorted distinct locations emitted to the client (part_000 l.93, l.232)
    checked,     \* the .loc-cb checkboxes: set of indexes of DATA_LOCATIONS that are checked
    tbody,       \* the <tr> rows of #reportTable in display order
    footer,      \* ftTotal / ftShifts / ftAvg as last written by the client
    currentKey,  \* client sort key
    currentDir,  \* client sort direction
    scheduledParsed,  \* csvParse(schedText)
    timesheetsParsed, \* csvParse(timeText)
    missedCount,      \* crossref l.95
    missedGroups,     \* the employee groups in rendering order (crossref l.142-154)
    startCol,         \* crossref l.85: the start column found, or null
    endCol,           \* crossref l.86: the end column found, or null
    fnIn,        \* argument of the pure function under test
    fnOut        \* its result

vars == <<page, status, parsed, summaryRows, totals, DATA_ROWS, DATA_LOCATIONS,
          checked, tbody, footer, currentKey, currentDir,
          scheduledParsed, timesheetsParsed, missedCount, missedGroups, startCol, endCol,
          fnIn, fnOut>>

(***************************************************************************)
(* Bounds of the model.                                                    *)
(***************************************************************************)
\* significant bits of the scaled-down floating-point format (binary64 has 53)
MantissaBits == 6
\* longest payout upload, in rows
MaxRows == 2
\* longest payout upload of the specification of the amounts, in rows
MaxAmountRows == 3
\* longest scheduled file and longest timesheets file, in rows
MaxShifts == 2
\* most entries of a raw record given to normalizeRowKeys on its own
MaxEntries == 2
\* longest string given to cleanCurrency on its own
MaxCurLen == 3
\* longest scheduled file of the specification of the missed-shift rules, in rows
MaxScheduled == 2
\* longest timesheets file of the specification of the missed-shift rules, in rows
MaxWorked == 1
\* the largest finite number is below 10^MaxDecimalDigits dollars (10^309 for
\* IEEE doubles); a literal beyond it is read as Infinity
MaxDecimalDigits == 6

(***************************************************************************)
(* Characters and strings.                                                 *)
(***************************************************************************)
UpperLetters == <<"A","B","C","D","E","F","G","H","I","J","K","L","M",
                  "N","O","P","Q","R","S","T","U","V","W","X","Y","Z">>
LowerLetters == <<"a","b","c","d","e","f","g","h","i","j","k","l","m",
                  "n","o","p","q","r","s","t","u","v","w","x","y","z">>
Digits == <<"0","1","2","3","4","5","6","7","8","9">>

\* the members of \s and of the trim() white-space set that the alphabet holds
WhiteSpace == {" ", "\t"}

IndexIn(c, seq) == IF \E i \in 1..Len(seq) : seq[i] = c
                   THEN CHOOSE i \in 1..Len(seq) : seq[i] = c
                   ELSE 0

RangeOf(seq) == {seq[i] : i \in 1..Len(seq)}

DigitSet == RangeOf(Digits)
DigitTable == [c \in DigitSet |-> IndexIn(c, Digits) - 1]
IsDigit(c) == c \in DigitSet
DigitVal(c) == DigitTable[c]

UpperSet == RangeOf(UpperLetters)
LowerTable == [c \in UpperSet |-> LowerLetters[IndexIn(c, UpperLetters)]]

\* String.prototype.toLowerCase, one character
LowerChar(c) == IF c \in UpperSet THEN LowerTable[c] ELSE c

\* String.prototype.toLowerCase
ToLowerCase(s) == [i \in 1..Len(s) |-> LowerChar(s[i])]

RECURSIVE TrimStart(_)
TrimStart(s) == IF s # <<>> /\ Head(s) \in WhiteSpace THEN TrimStart(Tail(s)) ELSE s

RECURSIVE TrimEnd(_)
TrimEnd(s) == IF s # <<>> /\ s[Len(s)] \in WhiteSpace
              THEN TrimEnd(SubSeq(s, 1, Len(s) - 1))
              ELSE s

\* String.prototype.trim
Trim(s) == TrimEnd(TrimStart(s))

\* s.replace(/[$,\s]/g, '')
StripCurrencyChars(s) == SelectSeq(s, LAMBDA c : c \notin ({"$", ","} \cup WhiteSpace))

StartsWith(s, p) == Len(s) >= Len(p) /\ SubSeq(s, 1, Len(p)) = p

Drop(s, n) == SubSeq(s, n + 1, Len(s))

\* all sequences over alphabet of length at most n
RECURSIVE SeqsUpTo(_, _)
SeqsUpTo(alphabet, n) ==
    IF n = 0 THEN {<<>>}
    ELSE LET shorter == SeqsUpTo(alphabet, n - 1)
         IN  shorter \cup {Append(s, c) : s \in shorter, c \in alphabet}

(***************************************************************************)
(* JavaScript values.                                                      *)
(***************************************************************************)
Undefined == [t |-> "undefined"]
Str(s) == [t |-> "string", s |-> s]
Num(n) == [t |-> "number", n |-> n]
Null == [t |-> "null"]
NaN == [t |-> "NaN"]
Infinity(neg) == [t |-> "Infinity", neg |-> neg]
\* a TypeError raised while evaluating an expression
Thrown == [t |-> "throw"]

\* a ?? b
Nullish(a, b) == IF a = Undefined THEN b ELSE a

(***************************************************************************)
(* Floating-point arithmetic.                                              *)
(***************************************************************************)
RECURSIVE Pow(_, _)
Pow(b, e) == IF e = 0 THEN 1 ELSE b * Pow(b, e - 1)

Abs(x) == IF x < 0 THEN -x ELSE x

\* the gap between neighbouring representable numbers around n/d (n >= 0):
\* the least power of two s >= 1 with n/d < 2^MantissaBits * s
\* 2^MantissaBits: below it every whole count of halves is representable
MantissaLimit == Pow(2, MantissaBits)

RECURSIVE SpacingFrom(_, _, _)
SpacingFrom(s, n, d) == IF n < MantissaLimit * s * d THEN s
                        ELSE SpacingFrom(2 * s, n, d)

\* n/d (n >= 0, d > 0) rounded to an integer, ties to even
RoundHalfEven(n, d) ==
    LET q == n \div d
        r == n % d
    IN  IF 2 * r < d THEN q
        ELSE IF 2 * r > d THEN q + 1
        ELSE IF q % 2 = 0 THEN q ELSE q + 1

\* the representable number nearest to n/d (d > 0), ties to even
FRound(n, d) ==
    LET a == Abs(n)
        s == SpacingFrom(1, a, d)
        m == s * RoundHalfEven(a, d * s)
    IN  IF n < 0 THEN -m ELSE m

\* a + b, a - b, a / b on numbers
FAdd(a, b) == FRound(a + b, 1)
FSub(a, b) == FRound(a - b, 1)
\* a / b for b > 0: the ratio of two counts of halves, stored in halves again
FDiv(a, b) == FRound(2 * a, b)
\* the number k, for an integer k
FromInt(k) == k + k

(***************************************************************************)
(* Number.parseFloat                                                       *)
(***************************************************************************)
RECURSIVE DigitPrefix(_)
DigitPrefix(s) == IF s # <<>> /\ IsDigit(Head(s))
                  THEN <<Head(s)>> \o DigitPrefix(Tail(s))
                  ELSE <<>>

RECURSIVE DigitsValue(_)
DigitsValue(ds) == IF ds = <<>> THEN 0
                   ELSE 10 * DigitsValue(SubSeq(ds, 1, Len(ds) - 1)) + DigitVal(ds[Len(ds)])

InfinityWord == <<"I","n","f","i","n","i","t","y">>

\* the exponent part at the head of s: e or E, an optional sign, at least one
\* digit; [len, value], both 0 when s does not start with one
ExponentOf(s) ==
    IF s = <<>> \/ Head(s) \notin {"e", "E"} THEN [len |-> 0, value |-> 0]
    ELSE LET r1   == Tail(s)
             sign == r1 # <<>> /\ Head(r1) \in {"+", "-"}
             neg  == r1 # <<>> /\ Head(r1) = "-"
             ds   == DigitPrefix(IF sign THEN Tail(r1) ELSE r1)
         IN  IF ds = <<>> THEN [len |-> 0, value |-> 0]
             ELSE [ len   |-> 1 + (IF sign THEN 1 ELSE 0) + Len(ds),
                    value |-> IF neg THEN -DigitsValue(ds) ELSE DigitsValue(ds) ]

\* the decimal digits of the natural number k
RECURSIVE DigitsOf(_)
DigitsOf(k) == IF k < 10 THEN <<Digits[k + 1]>>
               ELSE DigitsOf(k \div 10) \o <<Digits[(k % 10) + 1]>>

\* the number m * 10^e, in halves: beyond the largest finite number it is Infinity,
\* far below one half it is 0
Scaled(m, e) ==
    IF m = 0 THEN Num(0)
    ELSE IF Len(DigitsOf(m)) + e > MaxDecimalDigits THEN Infinity(FALSE)
    ELSE IF e >= 0 THEN Num(FRound(2 * m * Pow(10, e), 1))
    ELSE IF -e > Len(DigitsOf(m)) + 1 THEN Num(0)
    ELSE Num(FRound(2 * m, Pow(10, -e)))

\* the value of the digits int.frac times ten to the power ex
LiteralValue(int, frac, ex) == Scaled(DigitsValue(int \o frac), ex - Len(frac))

\* the literal read: integer digits, dot (its length, 0 or 1), fraction digits
\* and exponent part; without a digit there is no literal at all
Literal(int, dot, frac, ex) ==
    IF int = <<>> /\ frac = <<>> THEN [len |-> 0, value |-> NaN]
    ELSE [ len   |-> Len(int) + dot + Len(frac) + ex.len,
           value |-> LiteralValue(int, frac, ex.value) ]

ScanExponent(s, int, dot, frac) ==
    Literal(int, dot, frac, ExponentOf(Drop(s, Len(int) + dot + Len(frac))))

ScanFraction(s, int) ==
    IF Len(s) > Len(int) /\ s[Len(int) + 1] = "."
    THEN ScanExponent(s, int, 1, DigitPrefix(Drop(s, Len(int) + 1)))
    ELSE ScanExponent(s, int, 0, <<>>)

\* the longest prefix of s that is an unsigned StrDecimalLiteral: its length
\* (0 when there is none) and its value, the dollar amount stored in halves
ScanUnsigned(s) ==
    IF StartsWith(s, InfinityWord)
    THEN [len |-> Len(InfinityWord), value |-> Infinity(FALSE)]
    ELSE ScanFraction(s, DigitPrefix(s))

Negated(v) == IF v.t = "number" THEN Num(-v.n)
              ELSE IF v.t = "Infinity" THEN Infinity(~v.neg)
              ELSE v

\* the literal u found after a sign
Signed(neg, u) ==
    [ len   |-> IF u.len = 0 THEN 0 ELSE 1 + u.len,
      value |-> IF neg THEN Negated(u.value) ELSE u.value ]

\* the longest prefix of s that is a StrDecimalLiteral, sign included
ScanNumber(s) ==
    IF s # <<>> /\ Head(s) \in {"+", "-"}
    THEN Signed(Head(s) = "-", ScanUnsigned(Tail(s)))
    ELSE ScanUnsigned(s)

\* Number.parseFloat(s): leading white space is skipped, what follows the
\* literal is ignored
ParseFloat(s) == ScanNumber(TrimStart(s)).value

\* Number.isFinite
IsFinite(v) == v.t = "number"

(***************************************************************************)
(* Objects: a record of the program is a sequence of [k, v] entries in     *)
(* insertion order, with distinct keys.                                    *)
(***************************************************************************)
ObjHas(o, k) == \E i \in 1..Len(o) : o[i].k = k

\* o[k]
ObjGet(o, k) == IF ObjHas(o, k)
                THEN o[CHOOSE i \in 1..Len(o) : o[i].k = k].v
                ELSE Undefined

\* o[k] = v
ObjSet(o, k, v) == IF ObjHas(o, k)
                   THEN [i \in 1..Len(o) |-> IF o[i].k = k THEN [k |-> k, v |-> v] ELSE o[i]]
                   ELSE Append(o, [k |-> k, v |-> v])

\* x.toString() of a string
JsToString(x) == x.s

RECURSIVE NormalizeFrom(_, _)
NormalizeFrom(out, entries) ==
    IF entries = <<>> THEN out
    ELSE LET e == Head(entries)
         IN  NormalizeFrom(
                 ObjSet(out, ToLowerCase(Trim(e.k)),
                        Str(Trim(JsToString(Nullish(e.v, Str(<<>>)))))),
                 Tail(entries))

\* normalizeRowKeys with a trim that takes one white-space character off each end
\* (/^\s|\s$/g for /^\s+|\s+$/g)
TrimOne(s) ==
    SubSeq(s, IF s # <<>> /\ Head(s) \in WhiteSpace THEN 2 ELSE 1,
              IF Len(s) > 1 /\ s[Len(s)] \in WhiteSpace THEN Len(s) - 1 ELSE Len(s))

RECURSIVE NormalizeTrimOneFrom(_, _)
NormalizeTrimOneFrom(out, entries) ==
    IF entries = <<>> THEN out
    ELSE NormalizeTrimOneFrom(
             ObjSet(out, ToLowerCase(TrimOne(Head(entries).k)),
                    Str(TrimOne(JsToString(Nullish(Head(entries).v, Str(<<>>)))))),
             Tail(entries))

normalizeRowKeys_TrimOne(input) == NormalizeTrimOneFrom(<<>>, input)

\* normalizeRowKeys (the same text in all three route files)
normalizeRowKeys(input) == NormalizeFrom(<<>>, input)

\* Number.isFinite(n) ? n : 0
FiniteOrZero(n) == IF IsFinite(n) THEN n ELSE Num(0)

\* cleanCurrency: a number as it is, a string stripped and parsed, 0 when the
\* parse is not finite; value.replace on anything else raises a TypeError
cleanCurrency(value) ==
    IF value.t = "number" THEN value
    ELSE IF value.t # "string" THEN Thrown
    ELSE FiniteOrZero(ParseFloat(StripCurrencyChars(value.s)))

(***************************************************************************)
(* String.prototype.localeCompare and Array.prototype.sort                 *)
(***************************************************************************)
\* the characters of the alphabet in collation order (white space, punctuation,
\* symbols, currency, digits, letters); upper and lower case share a place
CollationChars == <<"\t", " ", "_", "-", ",", ".", "'", "|", "$">> \o Digits \o LowerLetters

CollationTable == [c \in RangeOf(CollationChars) |-> IndexIn(c, CollationChars)]

PrimaryWeight(c) == CollationTable[LowerChar(c)]

IsUpper(c) == c \in UpperSet

\* lexicographic comparison of two sequences of integers: -1, 0 or 1
RECURSIVE LexCompare(_, _)
LexCompare(a, b) ==
    IF a = <<>> /\ b = <<>> THEN 0
    ELSE IF a = <<>> THEN -1
    ELSE IF b = <<>> THEN 1
    ELSE IF Head(a) < Head(b) THEN -1
    ELSE IF Head(a) > Head(b) THEN 1
    ELSE LexCompare(Tail(a), Tail(b))

\* a.localeCompare(b): the letters decide first, whatever their case; between
\* strings with the same letters the first case difference decides, lower case first
LocaleCompare(a, b) ==
    LET pa == [i \in 1..Len(a) |-> PrimaryWeight(a[i])]
        pb == [i \in 1..Len(b) |-> PrimaryWeight(b[i])]
        ta == [i \in 1..Len(a) |-> IF IsUpper(a[i]) THEN 1 ELSE 0]
        tb == [i \in 1..Len(b) |-> IF IsUpper(b[i]) THEN 1 ELSE 0]
    IN  IF LexCompare(pa, pb) # 0 THEN LexCompare(pa, pb) ELSE LexCompare(ta, tb)

\* seq.sort(cmp): Array.prototype.sort is stable
StableSort(seq, cmp(_, _)) ==
    LET n == Len(seq)
        rank(i) == 1 + Cardinality({j \in 1..n :
                        \/ cmp(seq[j], seq[i]) < 0
                        \/ cmp(seq[j], seq[i]) = 0 /\ j < i})
    IN  [p \in 1..n |-> seq[CHOOSE i \in 1..n : rank(i) = p]]

MapSeq(seq, f(_)) == [i \in 1..Len(seq) |-> f(seq[i])]

(***************************************************************************)
(* calculate/route.ts: the whole-dataset payout report                     *)
(***************************************************************************)
EXCLUDED_LOCATIONS == {
    <<"B","l","u"," ","o","n"," ","t","h","e"," ","H","u","d","s","o","n">>,
    <<"C","h","a","r","t"," ","H","o","u","s","e">>,
    <<"H","a","v","e","n">>,
    <<"R","u","t","h","'","s"," ","C","h","r","i","s">> }

EXCLUDED_EMPLOYEES == {
    <<"N","i","c","k"," ","C">>,
    <<"T","r","o","y">>,
    <<"A","n","d","y">>,
    <<"A","r","o","d">>,
    <<"D","a","n","n","y"," ","M">>,
    <<"J","a","y">>,
    <<"T","o","t","a","l","s">>,
    <<>> }

FlemingsCondo == <<"F","l","e","m","i","n","g","'","s"," ","C","o","n","d","o">>

\* 13.5, in halves
BONUS == 27

K_employee == <<"e","m","p","l","o","y","e","e">>
K_location == <<"l","o","c","a","t","i","o","n">>
K_tips == <<"t","i","p","s">>
K_cost == <<"c","o","s","t">>

\* (r[name] ?? '').toString().trim()
FieldText(r, name) == Trim(JsToString(Nullish(ObjGet(r, name), Str(<<>>))))

\* rows.filter without its test of EXCLUDED_EMPLOYEES
KeepRow_AnyEmployee(r, excludedLocations) ==
    /\ FieldText(r, K_employee) # <<>>
    /\ FieldText(r, K_location) \notin excludedLocations

\* the predicate of rows.filter, l.77-84, with the location deny-list as a parameter
KeepRow(r, excludedLocations) ==
    LET employee == FieldText(r, K_employee)
        location == FieldText(r, K_location)
    IN  /\ employee # <<>>
        /\ employee \notin EXCLUDED_EMPLOYEES
        /\ location \notin excludedLocations

\* cleanCurrency(r[name]) without the ?? 0: a missing column reaches value.replace
CurrencyField_NoDefault(r, name) == cleanCurrency(ObjGet(r, name))

\* cleanCurrency(r[name] ?? 0)
CurrencyField(r, name) == cleanCurrency(Nullish(ObjGet(r, name), Num(0)))

\* the row built by .map, l.84-89
ShiftOf(r) ==
    [ employee |-> FieldText(r, K_employee),
      location |-> FieldText(r, K_location),
      tips     |-> CurrencyField(r, K_tips),
      cost     |-> CurrencyField(r, K_cost) ]

\* const filtered, l.77-89
Filtered(rows, excludedLocations) ==
    MapSeq(SelectSeq(rows, LAMBDA r : KeepRow(r, excludedLocations)), ShiftOf)

\* an exception escaped the arrow functions of l.77-89
Raises(filtered) ==
    \E i \in 1..Len(filtered) : filtered[i].tips = Thrown \/ filtered[i].cost = Thrown

\* l.94 without its test of the location
BonusOf_AnyLocation(row) == IF row.cost.n > row.tips.n THEN BONUS ELSE 0

\* l.94
BonusOf(row) ==
    IF row.location = FlemingsCondo /\ row.cost.n > row.tips.n THEN BONUS ELSE 0

\* const withBonus, l.92-95
WithBonus(filtered) ==
    MapSeq(filtered, LAMBDA row :
        [ employee |-> row.employee, location |-> row.location,
          tips |-> row.tips.n, cost |-> row.cost.n, bonus |-> BonusOf(row) ])

\* r.cost - r.tips + r.bonus, l.100
AmountOwed(r) == FAdd(FSub(r.cost, r.tips), r.bonus)

\* the predicate of withBonus.filter with >= for >
IsOwed_NotBelow(r) == r.cost >= r.tips

\* the predicate of withBonus.filter, l.98
IsOwed(r) == r.cost > r.tips

\* const source, l.98-101
Source(withBonus) ==
    MapSeq(SelectSeq(withBonus, IsOwed), LAMBDA r :
        [ employee |-> r.employee, location |-> r.location,
          tips |-> r.tips, cost |-> r.cost, bonus |-> r.bonus,
          amount_owed |-> AmountOwed(r) ])

\* the Map byEmployee after the loop of l.105-110, as its entries in insertion order
RECURSIVE ByEmployeeFrom(_, _)
ByEmployeeFrom(map, source) ==
    IF source = <<>> THEN map
    ELSE LET r   == Head(source)
             cur == Nullish(ObjGet(map, r.employee), [total |-> 0, count |-> 0])
             upd == [total |-> FAdd(cur.total, r.amount_owed),
                     count |-> FAdd(cur.count, FromInt(1))]
         IN  ByEmployeeFrom(ObjSet(map, r.employee, upd), Tail(source))

ByEmployee(source) == ByEmployeeFrom(<<>>, source)

\* one summary row, l.113-118
SummaryRow(entry) ==
    [ Employee            |-> entry.k,
      TotalAmountOwed     |-> entry.v.total,
      ShiftsThatWereOwed  |-> entry.v.count,
      AverageOwedPerShift |-> IF entry.v.count > 0
                              THEN FDiv(entry.v.total, entry.v.count) ELSE 0 ]

\* the comparator of l.121
ByEmployeeName(a, b) == LocaleCompare(a.Employee, b.Employee)

\* const summaryRows without the sort of l.121: the insertion order of the Map
SummaryRows_Unsorted(source) == MapSeq(ByEmployee(source), SummaryRow)

\* const summaryRows after the sort, l.112-121
SummaryRows(source) == StableSort(MapSeq(ByEmployee(source), SummaryRow), ByEmployeeName)

\* source.reduce((s, r) => s + r.amount_owed, 0), l.124
RECURSIVE SumOwedFrom(_, _)
SumOwedFrom(s, source) ==
    IF source = <<>> THEN s
    ELSE SumOwedFrom(FAdd(s, Head(source).amount_owed), Tail(source))

\* totalAmount, totalShifts, totalAvg, l.124-126
Totals(source) ==
    LET totalAmount == SumOwedFrom(0, source)
        totalShifts == FromInt(Len(source))
    IN  [ amount |-> totalAmount, shifts |-> totalShifts,
          avg |-> IF totalShifts > 0 THEN FDiv(totalAmount, totalShifts) ELSE 0 ]

\* the rows the whole computation of l.74-101 keeps, for a given deny-list
SourceOf(records, excludedLocations) ==
    Source(WithBonus(Filtered(MapSeq(records, normalizeRowKeys), excludedLocations)))

(***************************************************************************)
(* Number <-> String, as the data-* attributes and the JSON snapshot carry *)
(* numbers from the server to the client script                            *)
(***************************************************************************)
\* String(n), `${n}`, JSON.stringify(n) of a finite number
NumberToString(n) ==
    (IF n < 0 THEN <<"-">> ELSE <<>>)
    \o DigitsOf(Abs(n) \div 2)
    \o (IF Abs(n) % 2 = 1 THEN <<".", "5">> ELSE <<>>)

\* Number(s) of a string: '' is 0, and the whole trimmed string must be a
\* decimal literal (the pages hold no hexadecimal, octal or binary literals)
WholeLiteral(t, sc) == IF sc.len = Len(t) THEN sc.value ELSE NaN

NumberOfTrimmed(t) == IF t = <<>> THEN Num(0) ELSE WholeLiteral(t, ScanNumber(t))

ToNumber(s) == NumberOfTrimmed(Trim(s))

\* a number after its trip through JSON.stringify and the script's literal
JsonNumber(n) == ToNumber(NumberToString(n)).n

(***************************************************************************)
(* HTML escaping of attribute values (escapeHtml / hs) and the browser's   *)
(* decoding of them                                                        *)
(***************************************************************************)
EscapeChar(c) ==
    CASE c = "&"  -> <<"&","a","m","p",";">>
      [] c = "<"  -> <<"&","l","t",";">>
      [] c = ">"  -> <<"&","g","t",";">>
      [] c = "\"" -> <<"&","q","u","o","t",";">>
      [] c = "'"  -> <<"&","#","3","9",";">>
      [] OTHER    -> <<c>>

RECURSIVE escapeHtml(_)
escapeHtml(s) == IF s = <<>> THEN <<>> ELSE EscapeChar(Head(s)) \o escapeHtml(Tail(s))

Entities == {"&", "<", ">", "\"", "'"}

\* the attribute value the HTML parser reads back
RECURSIVE HtmlDecode(_)
HtmlDecode(s) ==
    IF s = <<>> THEN <<>>
    ELSE IF Head(s) = "&" /\ \E c \in Entities : StartsWith(s, EscapeChar(c))
    THEN LET c == CHOOSE c \in Entities : StartsWith(s, EscapeChar(c))
         IN  <<c>> \o HtmlDecode(Drop(s, Len(EscapeChar(c))))
    ELSE <<Head(s)>> \o HtmlDecode(Tail(s))

\* one <tr data-employee data-total data-shifts data-average> as the DOM holds it
TableRow(r) ==
    [ employee |-> HtmlDecode(escapeHtml(r.Employee)),
      total    |-> NumberToString(r.TotalAmountOwed),
      shifts   |-> NumberToString(r.ShiftsThatWereOwed),
      average  |-> NumberToString(r.AverageOwedPerShift) ]

(***************************************************************************)
(* The client script of both payout pages                                  *)
(***************************************************************************)
SortKeys == {"employee", "total", "shifts", "average"}

\* cmp(a, b, key, dir)
cmp(a, b, key, dir) ==
    LET res == IF key = "employee"
               THEN LocaleCompare(a[key], b[key])
               ELSE FSub(ToNumber(a[key]).n, ToNumber(b[key]).n)
    IN  IF dir = "asc" THEN res ELSE -res

\* applySort() through a table keyed by the sort value: of the rows that compare
\* equal only the first is re-appended
applySort_OnePerValue(rows, key, dir) ==
    SelectSeq(StableSort(rows, LAMBDA ra, rb : cmp(ra, rb, key, dir)),
              LAMBDA r : \A i \in 1..Len(rows) :
                            cmp(rows[i], r, key, dir) = 0 =>
                                \A j \in 1..(i - 1) : cmp(rows[j], r, key, dir) # 0 \/ rows[j] = r)

\* applySort(): the rows of tbody re-appended in sorted order
applySort(rows, key, dir) == StableSort(rows, LAMBDA ra, rb : cmp(ra, rb, key, dir))

(***************************************************************************)
(* part_000: the per-location payout report, server side                   *)
(***************************************************************************)
\* the predicate of rows.filter, part_000 l.67-73: no location exclusion
LocKeepRow(r) ==
    LET employee == FieldText(r, K_employee)
    IN  /\ employee # <<>>
        /\ employee \notin EXCLUDED_EMPLOYEES

\* const filtered, part_000 l.67-78
LocFiltered(rows) == MapSeq(SelectSeq(rows, LocKeepRow), ShiftOf)

\* const clientRows, part_000 l.92
ClientRows(source) ==
    MapSeq(source, LAMBDA r :
        [employee |-> r.employee, location |-> r.location, amountOwed |-> r.amount_owed])

\* Array.from(new Set(seq)): the distinct members in order of first appearance
RECURSIVE Distinct(_)
Distinct(seq) ==
    IF seq = <<>> THEN <<>>
    ELSE LET init == Distinct(SubSeq(seq, 1, Len(seq) - 1))
             x    == seq[Len(seq)]
         IN  IF \E i \in 1..Len(init) : init[i] = x THEN init ELSE Append(init, x)

\* const allLocations, part_000 l.93
AllLocations(clientRows) ==
    StableSort(Distinct(MapSeq(clientRows, LAMBDA r : r.location)), LocaleCompare)

\* the Map initialAgg after the loop of part_000 l.97-102
RECURSIVE InitialAggFrom(_, _)
InitialAggFrom(map, clientRows) ==
    IF clientRows = <<>> THEN map
    ELSE LET r   == Head(clientRows)
             cur == Nullish(ObjGet(map, r.employee), [total |-> 0, count |-> 0])
             upd == [total |-> FAdd(cur.total, r.amountOwed),
                     count |-> FAdd(cur.count, FromInt(1))]
         IN  InitialAggFrom(ObjSet(map, r.employee, upd), Tail(clientRows))

\* const summaryRows, part_000 l.103-108
LocSummaryRows(clientRows) ==
    StableSort(MapSeq(InitialAggFrom(<<>>, clientRows), SummaryRow), ByEmployeeName)

RECURSIVE SumAmountFrom(_, _)
SumAmountFrom(s, clientRows) ==
    IF clientRows = <<>> THEN s
    ELSE SumAmountFrom(FAdd(s, Head(clientRows).amountOwed), Tail(clientRows))

\* totalAmount, totalShifts, totalAvg, part_000 l.110-112
LocTotals(clientRows) ==
    LET totalAmount == SumAmountFrom(0, clientRows)
        totalShifts == FromInt(Len(clientRows))
    IN  [ amount |-> totalAmount, shifts |-> totalShifts,
          avg |-> IF totalShifts > 0 THEN FDiv(totalAmount, totalShifts) ELSE 0 ]

\* var DATA_ROWS = ${dataRowsJs}: the snapshot after toJs and the script's parse
SnapshotOf(clientRows) ==
    MapSeq(clientRows, LAMBDA r :
        [employee |-> r.employee, location |-> r.location,
         amountOwed |-> JsonNumber(r.amountOwed)])

(***************************************************************************)
(* part_000: the client script of the per-location report                  *)
(***************************************************************************)
\* the value attribute of the checkbox of location loc, part_000 l.295
CheckboxValue(loc) == HtmlDecode(escapeHtml(loc))

\* selectedLocations(), part_000 l.286-290; boxes is the set of checked indexes
selectedLocations(locations, boxes) ==
    {ToLowerCase(CheckboxValue(locations[i])) : i \in boxes}

\* Number(x) || 0
NumberOrZero(n) == IF n = 0 THEN 0 ELSE n

\* the state of the loop of part_000 l.307-316 after the rows given
RECURSIVE RecomputeFrom(_, _, _)
RecomputeFrom(acc, rows, sel) ==
    IF rows = <<>> THEN acc
    ELSE LET r == Head(rows)
         IN  IF ToLowerCase(r.location) \notin sel
             THEN RecomputeFrom(acc, Tail(rows), sel)
             ELSE LET a   == Nullish(ObjGet(acc.agg, r.employee), [total |-> 0, count |-> 0])
                      upd == [total |-> FAdd(a.total, NumberOrZero(r.amountOwed)),
                              count |-> FAdd(a.count, FromInt(1))]
                  IN  RecomputeFrom(
                          [ agg       |-> ObjSet(acc.agg, r.employee, upd),
                            totAmount |-> FAdd(acc.totAmount, NumberOrZero(r.amountOwed)),
                            totShifts |-> FAdd(acc.totShifts, FromInt(1)) ],
                          Tail(rows), sel)

\* recompute() up to the sort of l.321: the summary and the totals it displays
Recompute(rows, sel) ==
    LET acc == RecomputeFrom([agg |-> <<>>, totAmount |-> 0, totShifts |-> 0], rows, sel)
    IN  [ summary |-> StableSort(MapSeq(acc.agg, SummaryRow), ByEmployeeName),
          totals  |-> [ amount |-> acc.totAmount, shifts |-> acc.totShifts,
                        avg |-> IF acc.totAmount # 0 /\ acc.totShifts # 0
                                THEN FDiv(acc.totAmount, acc.totShifts) ELSE 0 ] ]

(***************************************************************************)
(* crossref/route.ts: the missed-shift report                              *)
(***************************************************************************)
K_date == <<"d","a","t","e">>
KEY_COLUMNS == <<K_employee, K_date, K_location>>

IGNORED_EMPLOYEES == { ToLowerCase(n) : n \in {
    <<"L","u","k","e"," ","W","h","e","l","a","n">>,
    <<"T","o","n","y">>,
    <<"A","r","o","d">>,
    <<"D","a","n","n","y"," ","M">>,
    <<"A","q","u","i","b">>,
    <<"N","i","c","k"," ","C">>,
    <<"A","n","d","y">>,
    <<"T","r","o","y">>,
    <<"R","o","n","y">>,
    <<"A","l","e","x","a","n","d","e","r"," ","M"," ","K","i","w","o","w","i","c","z">>,
    <<"M","i","c","h","a","e","l"," ","C">>,
    <<"J","a","y">>,
    <<"D","a","v","e">>,
    <<"N","i","c","k"," ","T">> } }

IGNORED_LOCATIONS == { ToLowerCase(n) : n \in {
    <<"B","l","u"," ","o","n"," ","t","h","e"," ","H","u","d","s","o","n">>,
    <<"R","u","t","h","'","s"," ","C","h","r","i","s">>,
    <<"H","a","v","e","n">>,
    <<"C","h","a","r","t"," ","H","o","u","s","e">>,
    <<"F","l","e","m","i","n","g","'","s"," ","E","d","g","e","w","a","t","e","r">> } }

SCHEDULED_START_CANDIDATES == <<
    <<"s","t","a","r","t","_","t","i","m","e">>,
    <<"s","t","a","r","t"," ","t","i","m","e">>,
    <<"s","t","a","r","t">>,
    <<"s","c","h","e","d","u","l","e","d","_","s","t","a","r","t">>,
    <<"s","c","h","e","d","u","l","e","d"," ","s","t","a","r","t">>,
    <<"s","h","i","f","t"," ","s","t","a","r","t">> >>

SCHEDULED_END_CANDIDATES == <<
    <<"e","n","d","_","t","i","m","e">>,
    <<"e","n","d"," ","t","i","m","e">>,
    <<"e","n","d">>,
    <<"s","c","h","e","d","u","l","e","d","_","e","n","d">>,
    <<"s","c","h","e","d","u","l","e","d"," ","e","n","d">>,
    <<"s","h","i","f","t"," ","e","n","d">> >>

\* findFirstExistingColumn as a loop over the keys of the row instead of the
\* candidates: the first column of the record that is a candidate
findFirstExistingColumn_RecordOrder(row, candidates) ==
    IF \E i \in 1..Len(row) : row[i].k \in RangeOf(candidates)
    THEN Str(row[CHOOSE i \in 1..Len(row) :
                 /\ row[i].k \in RangeOf(candidates)
                 /\ \A j \in 1..(i - 1) : row[j].k \notin RangeOf(candidates)].k)
    ELSE Null

\* findFirstExistingColumn
findFirstExistingColumn(row, candidates) ==
    IF \E i \in 1..Len(candidates) : ObjHas(row, candidates[i])
    THEN Str(candidates[CHOOSE i \in 1..Len(candidates) :
                 /\ ObjHas(row, candidates[i])
                 /\ \A j \in 1..(i - 1) : ~ObjHas(row, candidates[j])])
    ELSE Null

\* `${x}` of a record field: the string itself, 'undefined' when it is missing
TemplateText(v) == IF v = Undefined THEN <<"u","n","d","e","f","i","n","e","d">> ELSE v.s

\* keyOf
keyOf(r) ==
    TemplateText(ObjGet(r, K_employee)) \o <<"|","|">> \o
    TemplateText(ObjGet(r, K_date)) \o <<"|","|">> \o
    TemplateText(ObjGet(r, K_location))

\* !r[name]: the field is missing or the empty string
Falsy(r, name) == ObjGet(r, name) = Undefined \/ ObjGet(r, name).s = <<>>

\* the predicate of both filters without toLowerCase() on the field
NotIgnored_CaseSensitive(r) ==
    /\ (Falsy(r, K_employee) \/ ObjGet(r, K_employee).s \notin IGNORED_EMPLOYEES)
    /\ (Falsy(r, K_location) \/ ObjGet(r, K_location).s \notin IGNORED_LOCATIONS)

\* the predicate of both filters, crossref l.75-82
NotIgnored(r) ==
    /\ (Falsy(r, K_employee) \/ ToLowerCase(ObjGet(r, K_employee).s) \notin IGNORED_EMPLOYEES)
    /\ (Falsy(r, K_location) \/ ToLowerCase(ObjGet(r, K_location).s) \notin IGNORED_LOCATIONS)

\* KEY_COLUMNS.every(k => r[k])
HasKey(r) == \A i \in 1..Len(KEY_COLUMNS) : ~Falsy(r, KEY_COLUMNS[i])

\* const workedSet without its .filter: every timesheet record gives a key
WorkedSet_EveryRecord(filteredTimesheets) ==
    { keyOf(filteredTimesheets[i]) : i \in 1..Len(filteredTimesheets) }

\* const workedSet, crossref l.89-93
WorkedSet(filteredTimesheets) ==
    { keyOf(filteredTimesheets[i]) :
        i \in {j \in 1..Len(filteredTimesheets) : HasKey(filteredTimesheets[j])} }

\* the entry pushed for a missed row, crossref l.102-109
MissedEntry(r, sCol, eCol) ==
    LET base == << [k |-> K_date, v |-> ObjGet(r, K_date)],
                   [k |-> K_location, v |-> ObjGet(r, K_location)] >>
    IN  IF sCol # Null /\ eCol # Null
        THEN ObjSet(ObjSet(base, <<"s","t","a","r","t">>, ObjGet(r, sCol.s)),
                    <<"e","n","d">>, ObjGet(r, eCol.s))
        ELSE base

\* missedCount and missedByEmployee after the loop of crossref l.98-115 over rows
RECURSIVE MissedFrom(_, _, _, _, _)
MissedFrom(acc, rows, workedSet, sCol, eCol) ==
    IF rows = <<>> THEN acc
    ELSE LET r == Head(rows)
         IN  IF ~HasKey(r) \/ keyOf(r) \in workedSet
             THEN MissedFrom(acc, Tail(rows), workedSet, sCol, eCol)
             ELSE LET emp  == ObjGet(r, K_employee).s
                      list == IF ObjHas(acc.byEmployee, emp)
                              THEN ObjGet(acc.byEmployee, emp) ELSE <<>>
                  IN  MissedFrom(
                          [ count      |-> acc.count + 1,
                            byEmployee |-> ObjSet(acc.byEmployee, emp,
                                              Append(list, MissedEntry(r, sCol, eCol))) ],
                          Tail(rows), workedSet, sCol, eCol)

\* the computation without the sort of l.142: the groups in the insertion order of
\* the Map missedByEmployee
FindMissedShifts_InsertionOrder(scheduledFile, timesheetsFile) ==
    LET filteredScheduled  == SelectSeq(MapSeq(scheduledFile, normalizeRowKeys), NotIgnored)
        filteredTimesheets == SelectSeq(MapSeq(timesheetsFile, normalizeRowKeys), NotIgnored)
        sCol == IF Len(filteredScheduled) > 0
                THEN findFirstExistingColumn(filteredScheduled[1], SCHEDULED_START_CANDIDATES)
                ELSE Null
        eCol == IF Len(filteredScheduled) > 0
                THEN findFirstExistingColumn(filteredScheduled[1], SCHEDULED_END_CANDIDATES)
                ELSE Null
        acc  == MissedFrom([count |-> 0, byEmployee |-> <<>>], filteredScheduled,
                           WorkedSet(filteredTimesheets), sCol, eCol)
    IN  [ startCol |-> sCol, endCol |-> eCol, missedCount |-> acc.count,
          groups |-> IF acc.count = 0 THEN <<>> ELSE acc.byEmployee ]

\* the whole computation of crossref l.71-115 and the grouping of l.142-154
FindMissedShifts(scheduledFile, timesheetsFile) ==
    LET scheduledRows      == MapSeq(scheduledFile, normalizeRowKeys)
        timesheetRows      == MapSeq(timesheetsFile, normalizeRowKeys)
        filteredScheduled  == SelectSeq(scheduledRows, NotIgnored)
        filteredTimesheets == SelectSeq(timesheetRows, NotIgnored)
        sCol == IF Len(filteredScheduled) > 0
                THEN findFirstExistingColumn(filteredScheduled[1], SCHEDULED_START_CANDIDATES)
                ELSE Null
        eCol == IF Len(filteredScheduled) > 0
                THEN findFirstExistingColumn(filteredScheduled[1], SCHEDULED_END_CANDIDATES)
                ELSE Null
        acc  == MissedFrom([count |-> 0, byEmployee |-> <<>>], filteredScheduled,
                           WorkedSet(filteredTimesheets), sCol, eCol)
    IN  [ startCol    |-> sCol,
          endCol      |-> eCol,
          missedCount |-> acc.count,
          groups      |-> IF acc.count = 0 THEN <<>>
                          ELSE StableSort(acc.byEmployee,
                                          LAMBDA a, b : LocaleCompare(a.k, b.k)) ]

(***************************************************************************)
(* Uploads                                                                 *)
(***************************************************************************)
\* a CSV header: for each column its name and the field its cells are taken from
Column(name, field) == [name |-> name, field |-> field]

HeaderFull == << Column(<<"E","m","p","l","o","y","e","e">>, "employee"),
                 Column(<<"L","o","c","a","t","i","o","n">>, "location"),
                 Column(<<"T","i","p","s">>, "tips"),
                 Column(<<"C","o","s","t">>, "cost") >>

\* no tips column; names that need trimming and lower-casing
HeaderNoTips == << Column(<<" ","E","M","P","L","O","Y","E","E">>, "employee"),
                   Column(<<"l","o","c","a","t","i","o","n"," ">>, "location"),
                   Column(<<"c","o","s","t">>, "cost") >>

\* no cost column
HeaderNoCost == << Column(<<"E","m","p","l","o","y","e","e">>, "employee"),
                  Column(<<"L","o","c","a","t","i","o","n">>, "location"),
                  Column(<<"T","i","p","s">>, "tips") >>

Headers == {HeaderFull, HeaderNoTips, HeaderNoCost}

\* one line of an upload: the cells under the four columns
Line(employee, location, tips, cost) ==
    [employee |-> employee, location |-> location, tips |-> tips, cost |-> cost]

Ann == <<"A","n","n">>
Bob == <<"b","o","b">>
Troy == <<" ","T","r","o","y">>
Haven == <<"H","a","v","e","n">>
LowerHaven == <<"h","a","v","e","n">>
TipsPool == { <<"5">> }

\* lines for the payout reports: two employees with equal amounts at Fleming's
\* Condo and elsewhere, an excluded location, cost equal to tips, a cost that is
\* no number, an excluded employee (name to be trimmed), no employee
RowValues ==
    { Line(Ann, FlemingsCondo, <<"5">>, <<"$","2","0">>),
      Line(Bob, FlemingsCondo, <<"5">>, <<"$","2","0">>),
      Line(Bob, LowerHaven, <<"5">>, <<"$","2","0">>),
      Line(Bob, Haven, <<"5">>, <<"$","2","0">>),
      Line(Ann, FlemingsCondo, <<"5">>, <<"5">>),
      Line(Bob, LowerHaven, <<"5">>, <<"a","b","c">>),
      Line(Troy, FlemingsCondo, <<"5">>, <<"$","2","0">>),
      Line(<<>>, LowerHaven, <<"5">>, <<"$","2","0">>) }

\* the object csvParse builds for one line
RawRecord(header, cells) ==
    [i \in 1..Len(header) |-> [k |-> header[i].name, v |-> Str(cells[header[i].field])]]

\* csvParse(csvText) for every header and every sequence of at most n lines
UploadsOf(headers, values, n) ==
    { MapSeq(lines, LAMBDA cells : RawRecord(h, cells)) :
        h \in headers, lines \in SeqsUpTo(values, n) }

Uploads == UploadsOf(Headers, RowValues, MaxRows)

\* uploads for the amounts: three rows and sums that need rounding
Bar == <<"B","a","r">>
AmountRowValues == [employee : { Ann, Bob },
                    location : { FlemingsCondo, Bar },
                    tips : TipsPool,
                    cost : { <<"$","2","0">>, <<"9">> }]
AmountUploads == UploadsOf({HeaderFull}, AmountRowValues, MaxAmountRows)

\* uploads for the client script: location names that differ in case only
ClientRowValues == [employee : { Ann, Bob },
                    location : { FlemingsCondo, Haven, LowerHaven },
                    tips : TipsPool,
                    cost : { <<"$","2","0">>, <<"9">> }]
ClientUploads == UploadsOf({HeaderFull}, ClientRowValues, MaxRows)

\* uploads for the exclusion of employees: excluded names as listed and in other
\* letter case, next to an employee who is owed
NameRowValues ==
    { Line(Ann, Bar, <<"5">>, <<"$","2","0">>),
      Line(<<"T","r","o","y">>, Bar, <<"5">>, <<"$","2","0">>),
      Line(<<"t","r","o","y">>, Bar, <<"5">>, <<"$","2","0">>),
      Line(<<"N","I","C","K"," ","C">>, Bar, <<"5">>, <<"$","2","0">>) }
NameUploads == UploadsOf(Headers, NameRowValues, MaxRows)

\* uploads for the events of the client script: two employees whose order by
\* name is the reverse of their order by amount, at locations of which two differ
\* in letter case only
EventRowValues ==
    { Line(Ann, FlemingsCondo, <<"5">>, <<"$","2","0">>),
      Line(Bob, Haven, <<"5">>, <<"$","2","0">>),
      Line(Bob, LowerHaven, <<"5">>, <<"9">>),
      Line(Ann, Haven, <<"5">>, <<"9">>) }
EventUploads == UploadsOf({HeaderFull}, EventRowValues, MaxRows)

\* the two files of a missed-shift request
CrossHeader == << Column(<<"E","m","p","l","o","y","e","e">>, "employee"),
                  Column(<<"D","a","t","e">>, "date"),
                  Column(<<"L","o","c","a","t","i","o","n">>, "location") >>
\* lines for the missed-shift report: a plain shift, two shifts whose fields differ
\* but join to the same text, an ignored employee, no employee
Shift(employee, date, location) ==
    [employee |-> employee, date |-> date, location |-> location]

CrossRowValues ==
    { Shift(<<"A">>, <<"1">>, <<"X">>),
      Shift(<<"A","|">>, <<"1">>, <<"X">>),
      Shift(<<"A">>, <<"|","1">>, <<"X">>),
      Shift(<<"T","O","N","Y">>, <<"1">>, <<"X">>),
      Shift(<<>>, <<"1">>, <<"X">>) }
CrossFiles == UploadsOf({CrossHeader}, CrossRowValues, MaxShifts)
CrossUploads == [scheduled : CrossFiles, timesheets : CrossFiles]


\* scheduled lines for the rules of the missed-shift report: two employees whose
\* order by name differs from their order by character code, two shifts of one
\* employee, an ignored employee and an ignored location in other letter case, a
\* line without employee, without date and without location, an employee name
\* that ends in the separator of the key
LowerA == <<"a">>
UpperB == <<"B">>
FilterRowValues ==
    { Shift(LowerA, <<"1">>, <<"X">>),
      Shift(UpperB, <<"1">>, <<"X">>),
      Shift(UpperB, <<"2">>, <<"X">>),
      Shift(<<"T","O","N","Y">>, <<"1">>, <<"X">>),
      Shift(LowerA, <<"1">>, <<"H","A","V","E","N">>),
      Shift(<<>>, <<"1">>, <<"X">>),
      Shift(LowerA, <<>>, <<"X">>),
      Shift(LowerA, <<"1">>, <<>>),
      Shift(<<"a","|","|">>, <<"1">>, <<"X">>) }

\* timesheet lines: a shift worked, an ignored employee, a line without date whose
\* joined key is that of the scheduled shift of a||
WorkedRowValues ==
    { Shift(LowerA, <<"1">>, <<"X">>),
      Shift(<<"t","o","n","y">>, <<"1">>, <<"X">>),
      Shift(LowerA, <<>>, <<"1","|","|","X">>) }

WorkedFiles == UploadsOf({CrossHeader}, WorkedRowValues, MaxWorked)
FilterUploads == [scheduled : UploadsOf({CrossHeader}, FilterRowValues, MaxScheduled),
                  timesheets : WorkedFiles]

\* scheduled files with start and end columns: both, under names of which the
\* first in the file is not the first candidate; a start column only; an end
\* column only; none
TimedShift(employee, date, location, start, startTime, end) ==
    [employee |-> employee, date |-> date, location |-> location,
     start |-> start, start_time |-> startTime, end |-> end]

CrossHeaderTimes == CrossHeader \o
    << Column(<<"S","t","a","r","t">>, "start"),
       Column(<<" ","S","T","A","R","T","_","T","I","M","E">>, "start_time"),
       Column(<<"E","n","d">>, "end") >>
CrossHeaderStartOnly == CrossHeader \o << Column(<<"S","t","a","r","t">>, "start") >>
CrossHeaderEndOnly == CrossHeader \o << Column(<<"E","n","d"," ","T","i","m","e">>, "end") >>
ColumnHeaders == {CrossHeader, CrossHeaderTimes, CrossHeaderStartOnly, CrossHeaderEndOnly}

ColumnRowValues ==
    { TimedShift(LowerA, <<"1">>, <<"X">>, <<"8">>, <<"9">>, <<"5">>),
      TimedShift(UpperB, <<"1">>, <<"X">>, <<"7">>, <<"6">>, <<"4">>),
      TimedShift(<<"T","O","N","Y">>, <<"1">>, <<"X">>, <<"3">>, <<"2">>, <<"1">>) }
ColumnUploads == [scheduled : UploadsOf(ColumnHeaders, ColumnRowValues, MaxScheduled),
                  timesheets : WorkedFiles]

\* raw records for normalizeRowKeys on its own: column names that collide once
\* trimmed and lower-cased, values that need trimming, a missing value
RawKeyPool == { <<"a">>, <<" ","A">>, <<"A"," ">>, <<"b">> }
RawValuePool == { Str(<<"x">>), Str(<<" ","X"," ">>), Str(<<" "," ","x">>), Str(<<>>),
                  Undefined }
RawEntries == [k : RawKeyPool, v : RawValuePool]
RawRecords == { o \in SeqsUpTo(RawEntries, MaxEntries) :
                  \A i, j \in 1..Len(o) : i # j => o[i].k # o[j].k }

\* arguments for cleanCurrency on its own
CurrencyAlphabet == {"1", "5", ".", "$", ",", " ", "a", "-", "e"}
CurrencyInputs == { Str(str) : str \in SeqsUpTo(CurrencyAlphabet, MaxCurLen) }
                  \cup { Num(0), Num(FromInt(42)) }

(***************************************************************************)
(* Initial state: no request made yet                                      *)
(***************************************************************************)
NoTotals == [amount |-> 0, shifts |-> 0, avg |-> 0]

Init ==
    /\ page = "none"
    /\ status = 0
    /\ parsed = <<>>
    /\ summaryRows = <<>>
    /\ totals = NoTotals
    /\ DATA_ROWS = <<>>
    /\ DATA_LOCATIONS = <<>>
    /\ checked = {}
    /\ tbody = <<>>
    /\ footer = NoTotals
    /\ currentKey = "employee"
    /\ currentDir = "asc"
    /\ scheduledParsed = <<>>
    /\ timesheetsParsed = <<>>
    /\ missedCount = 0
    /\ missedGroups = <<>>
    /\ startCol = Null
    /\ endCol = Null
    /\ fnIn = <<>>
    /\ fnOut = <<>>

crossrefVars == <<scheduledParsed, timesheetsParsed, missedCount, missedGroups, startCol, endCol>>
fnVars == <<fnIn, fnOut>>

(***************************************************************************)
(* POST /api/calculate                                                     *)
(***************************************************************************)
\* the response of the catch branch, calculate l.294-296 and part_000 l.372-374
ErrorResponse ==
    [ page |-> "error", status |-> 400, summaryRows |-> <<>>, totals |-> NoTotals,
      DATA_ROWS |-> <<>>, DATA_LOCATIONS |-> <<>>, checked |-> {}, tbody |-> <<>>,
      footer |-> NoTotals ]

\* the page of l.128-293: the table of the summary rows and the totals footer
CalculatePage(summary, totalsRow) ==
    [ page |-> "calc", status |-> 200,
      summaryRows |-> summary,
      totals |-> totalsRow,
      DATA_ROWS |-> <<>>, DATA_LOCATIONS |-> <<>>, checked |-> {},
      tbody |-> MapSeq(summary, TableRow),
      footer |-> totalsRow ]

\* l.124 as source.reduce((s, r) => s + r.amount_owed) without its initial value:
\* reduce throws on an empty array and the catch of l.294 answers
CalculateSummary_ReduceNoInitial(source) ==
    IF source = <<>> THEN ErrorResponse
    ELSE CalculatePage(SummaryRows(source), Totals(source))

\* l.104-126 on the rows owed
CalculateSummary(source) == CalculatePage(SummaryRows(source), Totals(source))

\* l.92-293 on the rows kept, or the catch of l.294-296
CalculateFiltered(filtered) ==
    IF Raises(filtered) THEN ErrorResponse
    ELSE CalculateSummary(Source(WithBonus(filtered)))

\* the page POST answers with for the records csvParse gave, calculate l.74-293
CalculateResponse(records) ==
    CalculateFiltered(Filtered(MapSeq(records, normalizeRowKeys), EXCLUDED_LOCATIONS))

\* the response shown in the browser
Show(res) ==
    /\ page' = res.page
    /\ status' = res.status
    /\ summaryRows' = res.summaryRows
    /\ totals' = res.totals
    /\ DATA_ROWS' = res.DATA_ROWS
    /\ DATA_LOCATIONS' = res.DATA_LOCATIONS
    /\ checked' = res.checked
    /\ tbody' = res.tbody
    /\ footer' = res.footer
    /\ currentKey' = "employee"
    /\ currentDir' = "asc"

PostCalculate(uploads) ==
    /\ page = "none"
    /\ \E records \in uploads :
        /\ parsed' = records
        /\ \E res \in {CalculateResponse(records)} : Show(res)
    /\ UNCHANGED crossrefVars
    /\ UNCHANGED fnVars

(***************************************************************************)
(* POST of the per-location report, and the script run at page load        *)
(* (renderLocationControls(); updateArrows(); recompute();  l.359-362)     *)
(***************************************************************************)
\* the page once the script of l.359-362 has run: every box checked, the body
\* and footer recompute() wrote
LocationPage(summary, totalsRow, snapshot, locations, first) ==
    [ page |-> "loc", status |-> 200,
      summaryRows |-> summary,
      totals |-> totalsRow,
      DATA_ROWS |-> snapshot,
      DATA_LOCATIONS |-> locations,
      checked |-> 1..Len(locations),
      tbody |-> applySort(MapSeq(first.summary, TableRow), "employee", "asc"),
      footer |-> first.totals ]

\* the first recompute(), l.362
LocationScript(summary, totalsRow, snapshot, locations) ==
    LocationPage(summary, totalsRow, snapshot, locations,
                 Recompute(snapshot, selectedLocations(locations, 1..Len(locations))))

\* l.92-112 on the rows sent to the client
LocationSummary(clientRows) ==
    LocationScript(LocSummaryRows(clientRows), LocTotals(clientRows),
                   SnapshotOf(clientRows), AllLocations(clientRows))

\* l.81-371 on the rows kept, or the catch of l.372-374
LocationFiltered(filtered) ==
    IF Raises(filtered) THEN ErrorResponse
    ELSE LocationSummary(ClientRows(Source(WithBonus(filtered))))

\* the page POST answers with, part_000 l.64-371, after its script has run
LocationResponse(records) ==
    LocationFiltered(LocFiltered(MapSeq(records, normalizeRowKeys)))

PostLocation(uploads) ==
    /\ page = "none"
    /\ \E records \in uploads :
        /\ parsed' = records
        /\ \E res \in {LocationResponse(records)} : Show(res)
    /\ UNCHANGED crossrefVars
    /\ UNCHANGED fnVars

(***************************************************************************)
(* Client events                                                           *)
(***************************************************************************)
\* a click on the header button with data-key = key (calculate l.270-282,
\* part_000 l.342-354)
Click(key) ==
    /\ page \in {"calc", "loc"}
    /\ IF key = currentKey
       THEN /\ currentDir' = (IF currentDir = "asc" THEN "desc" ELSE "asc")
            /\ currentKey' = currentKey
       ELSE /\ currentKey' = key
            /\ currentDir' = "asc"
    /\ tbody' = applySort(tbody, currentKey', currentDir')
    /\ UNCHANGED <<page, status, parsed, summaryRows, totals, DATA_ROWS, DATA_LOCATIONS,
                   checked, footer>>
    /\ UNCHANGED crossrefVars
    /\ UNCHANGED fnVars

\* recompute() without its call of applySort(): the rows stay in the order of
\* the employees' names, l.321
RecomputeWith_EmployeeOrder(boxes) ==
    \E r \in {Recompute(DATA_ROWS, selectedLocations(DATA_LOCATIONS, boxes))} :
        /\ checked' = boxes
        /\ tbody' = MapSeq(r.summary, TableRow)
        /\ footer' = r.totals
        /\ UNCHANGED <<page, status, parsed, summaryRows, totals, DATA_ROWS, DATA_LOCATIONS,
                       currentKey, currentDir>>
        /\ UNCHANGED crossrefVars
        /\ UNCHANGED fnVars

\* recompute() with totAmount and totShifts declared outside the function: the
\* totals of the selection are added to those on display
RecomputeWith_TotalsKept(boxes) ==
    \E r \in {Recompute(DATA_ROWS, selectedLocations(DATA_LOCATIONS, boxes))} :
        /\ checked' = boxes
        /\ tbody' = applySort(MapSeq(r.summary, TableRow), currentKey, currentDir)
        /\ footer' = [ amount |-> FAdd(footer.amount, r.totals.amount),
                       shifts |-> FAdd(footer.shifts, r.totals.shifts),
                       avg    |-> r.totals.avg ]
        /\ UNCHANGED <<page, status, parsed, summaryRows, totals, DATA_ROWS, DATA_LOCATIONS,
                       currentKey, currentDir>>
        /\ UNCHANGED crossrefVars
        /\ UNCHANGED fnVars

\* recompute() with the check boxes as given, part_000 l.303-340
RecomputeWith(boxes) ==
    \E r \in {Recompute(DATA_ROWS, selectedLocations(DATA_LOCATIONS, boxes))} :
        /\ checked' = boxes
        /\ tbody' = applySort(MapSeq(r.summary, TableRow), currentKey, currentDir)
        /\ footer' = r.totals
        /\ UNCHANGED <<page, status, parsed, summaryRows, totals, DATA_ROWS, DATA_LOCATIONS,
                       currentKey, currentDir>>
        /\ UNCHANGED crossrefVars
        /\ UNCHANGED fnVars

\* the user toggles check box i: its change listener, part_000 l.298-300
CbChange(i) ==
    /\ page = "loc"
    /\ i \in 1..Len(DATA_LOCATIONS)
    /\ RecomputeWith(IF i \in checked THEN checked \ {i} ELSE checked \cup {i})

\* Select All, part_000 l.356
LocAll ==
    /\ page = "loc"
    /\ RecomputeWith(1..Len(DATA_LOCATIONS))

\* Clear, part_000 l.357
LocNone ==
    /\ page = "loc"
    /\ RecomputeWith({})

(***************************************************************************)
(* POST /api/crossref                                                      *)
(***************************************************************************)
PostCrossref(uploads) ==
    /\ page = "none"
    /\ \E files \in uploads :
        \E found \in {FindMissedShifts(files.scheduled, files.timesheets)} :
            /\ scheduledParsed' = files.scheduled
            /\ timesheetsParsed' = files.timesheets
            /\ missedCount' = found.missedCount
            /\ missedGroups' = found.groups
            /\ startCol' = found.startCol
            /\ endCol' = found.endCol
    /\ page' = "crossref"
    /\ status' = 200
    /\ UNCHANGED <<parsed, summaryRows, totals, DATA_ROWS, DATA_LOCATIONS, checked, tbody,
                   footer, currentKey, currentDir>>
    /\ UNCHANGED fnVars

(***************************************************************************)
(* The pure functions on their own                                         *)
(***************************************************************************)
Normalize ==
    /\ page = "normalizeRowKeys"
    /\ fnOut' = normalizeRowKeys(fnIn)
    /\ page' = "normalized"
    /\ UNCHANGED <<status, parsed, summaryRows, totals, DATA_ROWS, DATA_LOCATIONS, checked,
                   tbody, footer, currentKey, currentDir, fnIn>>
    /\ UNCHANGED crossrefVars

CleanCurrency ==
    /\ page = "cleanCurrency"
    /\ fnOut' = cleanCurrency(fnIn)
    /\ page' = "cleaned"
    /\ UNCHANGED <<status, parsed, summaryRows, totals, DATA_ROWS, DATA_LOCATIONS, checked,
                   tbody, footer, currentKey, currentDir, fnIn>>
    /\ UNCHANGED crossrefVars

(***************************************************************************)
(* Specifications                                                          *)
(***************************************************************************)
\* the three request handlers, on the general uploads
Next ==
    \/ PostCalculate(Uploads)
    \/ PostLocation(Uploads)
    \/ PostCrossref(CrossUploads)

Spec == Init /\ [][Next]_vars

\* the two payout handlers on the uploads for the amounts
NextAmounts ==
    \/ PostCalculate(AmountUploads)
    \/ PostLocation(AmountUploads)

SpecAmounts == Init /\ [][NextAmounts]_vars

\* the payout pages and the events of their client script
NextClient ==
    \/ PostCalculate(ClientUploads)
    \/ PostLocation(ClientUploads)
    \/ \E key \in SortKeys : Click(key)
    \/ \E i \in 1..Len(DATA_LOCATIONS) : CbChange(i)
    \/ LocAll
    \/ LocNone

SpecClient == Init /\ [][NextClient]_vars

\* the two payout handlers on the uploads for the exclusion of employees
NextNames ==
    \/ PostCalculate(NameUploads)
    \/ PostLocation(NameUploads)

SpecNames == Init /\ [][NextNames]_vars

\* the missed-shift handler on the uploads for its filters and for its columns
NextCross ==
    \/ PostCrossref(FilterUploads)
    \/ PostCrossref(ColumnUploads)

SpecCross == Init /\ [][NextCross]_vars

\* the payout pages and the events of their client script, on the uploads for
\* the events
NextEvents ==
    \/ PostCalculate(EventUploads)
    \/ PostLocation(EventUploads)
    \/ \E key \in SortKeys : Click(key)
    \/ \E i \in 1..Len(DATA_LOCATIONS) : CbChange(i)
    \/ LocAll
    \/ LocNone

SpecEvents == Init /\ [][NextEvents]_vars

\* the pure functions applied to arguments drawn from bounded sets
InitFn ==
    /\ \/ page = "normalizeRowKeys" /\ fnIn \in RawRecords
       \/ page = "cleanCurrency" /\ fnIn \in CurrencyInputs
    /\ status = 0
    /\ parsed = <<>>
    /\ summaryRows = <<>>
    /\ totals = NoTotals
    /\ DATA_ROWS = <<>>
    /\ DATA_LOCATIONS = <<>>
    /\ checked = {}
    /\ tbody = <<>>
    /\ footer = NoTotals
    /\ currentKey = "employee"
    /\ currentDir = "asc"
    /\ scheduledParsed = <<>>
    /\ timesheetsParsed = <<>>
    /\ missedCount = 0
    /\ missedGroups = <<>>
    /\ startCol = Null
    /\ endCol = Null
    /\ fnOut = <<>>

NextFn == Normalize \/ CleanCurrency

SpecFn == InitFn /\ [][NextFn]_vars

(***************************************************************************)
(* Properties                                                              *)
(***************************************************************************)
\* the exact sum of f over the members of seq
SumOver(seq, f(_)) ==
    LET sum[i \in 0..Len(seq)] == IF i = 0 THEN 0 ELSE sum[i - 1] + f(seq[i])
    IN  sum[Len(seq)]

TotalOwedOf(row) == row.TotalAmountOwed
ShiftCountOf(row) == row.ShiftsThatWereOwed

\* a payout report is on display
Reported == page \in {"calc", "loc"}

\* the sum of f over the members of seq as a loop of double additions computes it
FloatSumOver(seq, f(_)) ==
    LET sum[i \in 0..Len(seq)] == IF i = 0 THEN 0 ELSE FAdd(sum[i - 1], f(seq[i]))
    IN  sum[Len(seq)]

\* C1: in both payout reports the total_owed of the summary rows add up to
\* totals.amount and their shift_count add up to totals.shifts; the sum of the
\* amounts is accepted both as the exact sum and as the sum a loop of double
\* additions over the rows gives
C1_TotalsInvariant ==
    Reported =>
        /\ \/ SumOver(summaryRows, TotalOwedOf) = totals.amount
           \/ FloatSumOver(summaryRows, TotalOwedOf) = totals.amount
        /\ SumOver(summaryRows, ShiftCountOf) = totals.shifts

\* the locations whose check box is not checked
Unchecked == {DATA_LOCATIONS[i] : i \in (1..Len(DATA_LOCATIONS)) \ checked}

\* the rows and the footer the page shows are those of the summary given
Shows(source) ==
    /\ RangeOf(tbody) = RangeOf(MapSeq(SummaryRows(source), TableRow))
    /\ Len(tbody) = Len(SummaryRows(source))
    /\ footer = Totals(source)

\* C2: whatever boxes are checked, the per-location page shows the summaries and
\* totals the payout pipeline computes from the uploaded records when the
\* unchecked locations are its excluded locations, also for locations whose
\* names differ in letter case only
C2_ReaggregationConsistency ==
    page = "loc" => Shows(SourceOf(parsed, Unchecked))

\* the records of a parsed file that survive the ignore filter and carry all three
\* key fields
KeyedRecords(file) ==
    SelectSeq(MapSeq(file, normalizeRowKeys), LAMBDA r : NotIgnored(r) /\ HasKey(r))

\* the (employee, date, location) triple of a record
Triple(r) == <<ObjGet(r, K_employee).s, ObjGet(r, K_date).s, ObjGet(r, K_location).s>>

\* some timesheet record carries the triple of r
Worked(r) ==
    \E j \in 1..Len(KeyedRecords(timesheetsParsed)) :
        Triple(KeyedRecords(timesheetsParsed)[j]) = Triple(r)

\* the report lists a missed shift of r's employee at r's date and location
ReportedMissed(r) ==
    \E i \in 1..Len(missedGroups) :
        /\ missedGroups[i].k = ObjGet(r, K_employee).s
        /\ \E j \in 1..Len(missedGroups[i].v) :
            /\ ObjGet(missedGroups[i].v[j], K_date) = ObjGet(r, K_date)
            /\ ObjGet(missedGroups[i].v[j], K_location) = ObjGet(r, K_location)

\* C3: a scheduled record that survives the ignore filter and has all three key
\* fields is reported as missed exactly when no surviving, fully keyed timesheet
\* record has the same employee, date and location, field by field
C3_AntiJoinByTriple ==
    page = "crossref" =>
        /\ \A i \in 1..Len(KeyedRecords(scheduledParsed)) :
            ReportedMissed(KeyedRecords(scheduledParsed)[i])
                <=> ~Worked(KeyedRecords(scheduledParsed)[i])
        /\ missedCount = Cardinality({i \in 1..Len(KeyedRecords(scheduledParsed)) :
                                        ~Worked(KeyedRecords(scheduledParsed)[i])})

\* the names that keep a record out of the payout reports
ExcludedNames == EXCLUDED_EMPLOYEES \cup {<<>>}

\* the employee field of the uploaded record raw, trimmed, is an excluded name
NamesExcluded(raw) == FieldText(normalizeRowKeys(raw), K_employee) \in ExcludedNames

WithoutExcluded(records) == SelectSeq(records, LAMBDA raw : ~NamesExcluded(raw))

\* the summaries, totals and snapshot of a response
Output(res) == <<res.summaryRows, res.totals, res.DATA_ROWS>>

\* C4: in both payout reports a record whose trimmed employee field is Troy, another
\* excluded name or empty contributes nothing: no summary row or snapshot row
\* carries such a name, and summaries, totals and snapshot are those of the
\* upload without these records
C4_ExcludedNeverContribute ==
    Reported =>
        /\ \A i \in 1..Len(summaryRows) : summaryRows[i].Employee \notin ExcludedNames
        /\ \A i \in 1..Len(DATA_ROWS) : DATA_ROWS[i].employee \notin ExcludedNames
        /\ page = "calc" => <<summaryRows, totals, DATA_ROWS>>
                              = Output(CalculateResponse(WithoutExcluded(parsed)))
        /\ page = "loc" => <<summaryRows, totals, DATA_ROWS>>
                              = Output(LocationResponse(WithoutExcluded(parsed)))

\* a report on an upload that holds a Troy record with cost above tips next to
\* a record of somebody who is owed
C4_Witness ==
    /\ Reported
    /\ summaryRows # <<>>
    /\ \E i \in 1..Len(parsed) :
        /\ FieldText(normalizeRowKeys(parsed[i]), K_employee) = <<"T","r","o","y">>
        /\ IsOwed(WithBonus(<<ShiftOf(normalizeRowKeys(parsed[i]))>>)[1])

\* the shift records of the upload that passed the filters of the report on
\* display, with their bonus
PassedShifts ==
    IF page = "calc"
    THEN WithBonus(Filtered(MapSeq(parsed, normalizeRowKeys), EXCLUDED_LOCATIONS))
    ELSE WithBonus(LocFiltered(MapSeq(parsed, normalizeRowKeys)))

\* the bonus of the shift is 13.5 exactly when it is at Fleming's Condo with cost
\* above tips, and 0 otherwise
BonusRule(r) ==
    /\ r.bonus \in {0, FromInt(13) + 1}
    /\ r.bonus # 0 <=> (r.location = FlemingsCondo /\ r.cost > r.tips)

\* the amount owed is cost - tips + bonus; 28.5 resp. 15 for cost 20 and tips 5
AmountRule(r) ==
    /\ r.amount_owed = FAdd(FSub(r.cost, r.tips), r.bonus)
    /\ (r.cost = FromInt(20) /\ r.tips = FromInt(5)) =>
            r.amount_owed = IF r.location = FlemingsCondo
                            THEN FromInt(28) + 1 ELSE FromInt(15)

\* C5: every shift that passes the filters has bonus 13.5 iff it is at Fleming's
\* Condo with cost > tips, and 0 otherwise; every owed shift has amount_owed =
\* cost - tips + bonus (cost 20, tips 5: 28.5 at Fleming's Condo, 15 elsewhere),
\* and these are the amounts the per-location snapshot carries
C5_BonusAndAmount ==
    Reported =>
        /\ \A i \in 1..Len(PassedShifts) : BonusRule(PassedShifts[i])
        /\ \A i \in 1..Len(Source(PassedShifts)) : AmountRule(Source(PassedShifts)[i])
        /\ page = "loc" =>
            /\ Len(DATA_ROWS) = Len(Source(PassedShifts))
            /\ \A i \in 1..Len(DATA_ROWS) :
                DATA_ROWS[i].amountOwed = Source(PassedShifts)[i].amount_owed

\* a report on a shift with cost 20 and tips 5 at Fleming's Condo and one with the
\* same cost and tips elsewhere
C5_Witness ==
    /\ Reported
    /\ \E i, j \in 1..Len(PassedShifts) :
        /\ PassedShifts[i].location = FlemingsCondo
        /\ PassedShifts[j].location # FlemingsCondo
        /\ PassedShifts[i].cost = FromInt(20) /\ PassedShifts[i].tips = FromInt(5)
        /\ PassedShifts[j].cost = FromInt(20) /\ PassedShifts[j].tips = FromInt(5)

\* C6: normalizeRowKeys is idempotent: normalizing a normalized record gives a
\* record with the same keys and the same values
C6_NormalizeIdempotent ==
    page = "normalized" => normalizeRowKeys(fnOut) = fnOut

\* a record was normalized whose column names collide once trimmed and lower-cased
\* and one of whose values needed trimming or was missing
C6_Witness ==
    /\ page = "normalized"
    /\ Len(fnOut) < Len(fnIn)
    /\ \E i \in 1..Len(fnIn) : fnIn[i].v = Undefined \/ fnIn[i].v.s # Trim(fnIn[i].v.s)

\* the string is a decimal number from its first to its last character: an optional
\* sign, digits with an optional fraction, an optional exponent
IsDecimalNumber(str) ==
    /\ str # <<>>
    /\ ScanNumber(str).len = Len(str)
    /\ ScanNumber(str).value.t = "number"

\* C7: cleanCurrency returns 0, and neither NaN nor an infinite value, for every
\* string whose residue once '$', ',' and white space are removed is not a decimal
\* number: the empty string, letters, digits followed by garbage
C7_ZeroOnNonDecimal ==
    (/\ page = "cleaned"
     /\ fnIn.t = "string"
     /\ ~IsDecimalNumber(StripCurrencyChars(fnIn.s)))
        => fnOut = Num(0)

\* a payout request has been answered, with a report or with the error page
PayoutAnswered == page \in {"calc", "loc", "error"}

\* the missed-shift report is the page without any missed shift
NothingMissed == status = 200 /\ missedCount = 0 /\ missedGroups = <<>>

\* C8: on an empty record sequence the payout pipeline answers with a report that
\* has no summary rows and totals amount 0, shifts 0, average 0; the missed-shift
\* report of an empty scheduled file is empty, whatever the timesheets are, and so
\* is the report when every scheduled key is among the timesheets'
C8_EmptyInput ==
    /\ (PayoutAnswered /\ parsed = <<>>) =>
            /\ Reported /\ status = 200
            /\ summaryRows = <<>>
            /\ totals = [amount |-> 0, shifts |-> 0, avg |-> 0]
    /\ (page = "crossref" /\ scheduledParsed = <<>>) => NothingMissed
    /\ (/\ page = "crossref"
        /\ \A i \in 1..Len(KeyedRecords(scheduledParsed)) :
                Worked(KeyedRecords(scheduledParsed)[i])) => NothingMissed

\* a missed-shift report on a scheduled file with keyed records, each of them among
\* the timesheets, next to a timesheet that is not scheduled
C8_Witness ==
    /\ page = "crossref"
    /\ KeyedRecords(scheduledParsed) # <<>>
    /\ \A i \in 1..Len(KeyedRecords(scheduledParsed)) :
            Worked(KeyedRecords(scheduledParsed)[i])
    /\ Len(KeyedRecords(timesheetsParsed)) > Len(KeyedRecords(scheduledParsed))
    /\ NothingMissed

\* the field is missing from the record or does not hold a decimal number
NoAmount(r, name) ==
    ~ObjHas(r, name) \/ ~IsDecimalNumber(StripCurrencyChars(ObjGet(r, name).s))

\* the uploaded record has a missing or malformed employee, tips or cost field
Malformed(raw) ==
    \/ FieldText(normalizeRowKeys(raw), K_employee) = <<>>
    \/ NoAmount(normalizeRowKeys(raw), K_tips)
    \/ NoAmount(normalizeRowKeys(raw), K_cost)

RemoveAt(seq, i) == SubSeq(seq, 1, i - 1) \o SubSeq(seq, i + 1, Len(seq))

\* the summary rows of the employees other than the one named
SummariesBut(rows, employee) == SelectSeq(rows, LAMBDA row : row.Employee # employee)

\* the answer of the handler of the page on display to the records given
Answer(records) ==
    IF page = "loc" THEN LocationResponse(records) ELSE CalculateResponse(records)

\* C9: the payout pipeline never answers with its error page, whatever rows with a
\* missing or malformed employee, tips or cost field the upload holds, and the
\* summaries of the employees other than such a row's employee are the summaries
\* of the upload without that row
C9_BadRowIsLocal ==
    PayoutAnswered =>
        /\ Reported /\ status = 200
        /\ \A i \in 1..Len(parsed) :
            Malformed(parsed[i]) =>
                SummariesBut(summaryRows, FieldText(normalizeRowKeys(parsed[i]), K_employee))
                  = SummariesBut(Answer(RemoveAt(parsed, i)).summaryRows,
                                 FieldText(normalizeRowKeys(parsed[i]), K_employee))

\* a report on an upload with a malformed row of a named employee and a summary
\* row of somebody else
C9_Witness ==
    /\ Reported
    /\ \E i \in 1..Len(parsed) :
        /\ Malformed(parsed[i])
        /\ FieldText(normalizeRowKeys(parsed[i]), K_employee) # <<>>
        /\ SummariesBut(summaryRows, FieldText(normalizeRowKeys(parsed[i]), K_employee))
             # <<>>

EmployeeOf(row) == row.Employee

\* the owed shifts of the upload behind the report on display
OwedShifts == Source(PassedShifts)

\* the number of owed shifts of the employee
OwedCount(employee) ==
    Cardinality({i \in 1..Len(OwedShifts) : OwedShifts[i].employee = employee})

\* the records in the order p
Reordered(records, p) == [i \in 1..Len(records) |-> records[p[i]]]

\* C10: the server's summary has exactly one row for each employee among the owed
\* shifts, with shift_count the number of these shifts (at least 1) and average_owed
\* = total_owed / shift_count; the rows are in ascending order of the names, the
\* same order whatever the order of the uploaded rows
C10_OneRowPerEmployeeByName ==
    Reported =>
        /\ {summaryRows[i].Employee : i \in 1..Len(summaryRows)}
             = {OwedShifts[i].employee : i \in 1..Len(OwedShifts)}
        /\ \A i, j \in 1..Len(summaryRows) :
            i < j => /\ summaryRows[i].Employee # summaryRows[j].Employee
                     /\ LocaleCompare(summaryRows[i].Employee, summaryRows[j].Employee) < 0
        /\ \A i \in 1..Len(summaryRows) :
            /\ summaryRows[i].ShiftsThatWereOwed >= FromInt(1)
            /\ summaryRows[i].ShiftsThatWereOwed = FromInt(OwedCount(summaryRows[i].Employee))
            /\ summaryRows[i].AverageOwedPerShift
                 = FDiv(summaryRows[i].TotalAmountOwed, summaryRows[i].ShiftsThatWereOwed)
        /\ \A p \in Permutations(1..Len(parsed)) :
            MapSeq(Answer(Reordered(parsed, p)).summaryRows, EmployeeOf)
              = MapSeq(summaryRows, EmployeeOf)

\* a report on two employees with the same total owed whose rows were uploaded in
\* the order opposite to that of their names
C10_Witness ==
    /\ Reported
    /\ Len(summaryRows) = 2
    /\ summaryRows[1].TotalAmountOwed = summaryRows[2].TotalAmountOwed
    /\ OwedShifts[1].employee = summaryRows[2].Employee

\* the members of the exclusion set in lower case
LoweredExclusions == {ToLowerCase(name) : name \in EXCLUDED_EMPLOYEES}

\* C11: the exclusion of employees does not depend on letter case: no summary row
\* and no snapshot row of a payout report carries a name that differs from a
\* member of the exclusion set in letter case only, such as troy or NICK C
C11_ExclusionIgnoresCase ==
    Reported =>
        /\ \A i \in 1..Len(summaryRows) :
            ToLowerCase(summaryRows[i].Employee) \notin LoweredExclusions
        /\ \A i \in 1..Len(DATA_ROWS) :
            ToLowerCase(DATA_ROWS[i].employee) \notin LoweredExclusions

\* the text of a field of a normalized record
TextOf(r, name) == ObjGet(r, name).s

\* the names of the list with letter case disregarded
Lowered(list) == {ToLowerCase(name) : name \in list}

\* the text is not empty and equals a member of the list when letter case is
\* disregarded
NamedIn(text, list) == text # <<>> /\ ToLowerCase(text) \in Lowered(list)

\* the record names an ignored employee or an ignored location
NamesIgnored(r) ==
    \/ NamedIn(TextOf(r, K_employee), IGNORED_EMPLOYEES)
    \/ NamedIn(TextOf(r, K_location), IGNORED_LOCATIONS)

\* the normalized records of both files of the request
BothFiles == MapSeq(scheduledParsed, normalizeRowKeys) \o MapSeq(timesheetsParsed, normalizeRowKeys)

\* C12: the ignore filter of the missed-shift report removes a scheduled or
\* timesheet record exactly when its non-empty employee is an ignored employee or
\* its non-empty location is an ignored location, letter case disregarded (an
\* empty employee or location removes nothing); no group of the report is that of
\* an ignored employee and no missed shift is at an ignored location, in any case
C12_IgnoreFilter ==
    page = "crossref" =>
        /\ \A r \in RangeOf(BothFiles) : ~NotIgnored(r) <=> NamesIgnored(r)
        /\ \A group \in RangeOf(missedGroups) :
            /\ ~NamedIn(group.k, IGNORED_EMPLOYEES)
            /\ \A entry \in RangeOf(group.v) :
                ~NamedIn(TextOf(entry, K_location), IGNORED_LOCATIONS)

\* a report with a missed shift on a scheduled file that holds a shift of TONY,
\* or one at HAVEN, names the lists hold in another letter case
C12_Witness ==
    /\ page = "crossref"
    /\ missedCount > 0
    /\ \E i \in 1..Len(scheduledParsed) :
        LET r == normalizeRowKeys(scheduledParsed[i])
        IN  /\ NamesIgnored(r)
            /\ TextOf(r, K_employee) \notin IGNORED_EMPLOYEES
            /\ TextOf(r, K_location) \notin IGNORED_LOCATIONS

\* employee, date and location of the record are all non-empty
Complete(r) ==
    TextOf(r, K_employee) # <<>> /\ TextOf(r, K_date) # <<>> /\ TextOf(r, K_location) # <<>>

\* the normalized records of the file that name nothing ignored and are complete
CompleteRecords(file) ==
    SelectSeq(MapSeq(file, normalizeRowKeys), LAMBDA r : Complete(r) /\ ~NamesIgnored(r))

\* the joined key of r is that of a complete timesheet record
KeyWorked(r) ==
    keyOf(r) \in {keyOf(t) : t \in RangeOf(CompleteRecords(timesheetsParsed))}

\* the complete scheduled records whose key no complete timesheet record has
MissedRecords == SelectSeq(CompleteRecords(scheduledParsed), LAMBDA r : ~KeyWorked(r))

\* C13: no group of the missed-shift report has an empty employee and no missed
\* shift an empty date or location; the missed count is the number of complete
\* scheduled records whose key no complete timesheet record has, each of them
\* reported: a scheduled record with an empty key field is neither reported nor
\* counted, and a timesheet record with an empty key field suppresses nothing
C13_IncompleteRecords ==
    page = "crossref" =>
        /\ \A group \in RangeOf(missedGroups) :
            /\ group.k # <<>>
            /\ \A entry \in RangeOf(group.v) :
                TextOf(entry, K_date) # <<>> /\ TextOf(entry, K_location) # <<>>
        /\ \A missed \in {MissedRecords} :
            /\ missedCount = Len(missed)
            /\ \A r \in RangeOf(missed) : ReportedMissed(r)

\* a report on a scheduled file with a record without date next to a complete
\* record that is reported, and a timesheet record without date whose joined key
\* is that of the reported record
C13_Witness ==
    /\ page = "crossref"
    /\ \E i \in 1..Len(scheduledParsed) : ~Complete(normalizeRowKeys(scheduledParsed[i]))
    /\ \E r \in RangeOf(MissedRecords) :
        /\ ReportedMissed(r)
        /\ \E j \in 1..Len(timesheetsParsed) :
            /\ ~Complete(normalizeRowKeys(timesheetsParsed[j]))
            /\ keyOf(normalizeRowKeys(timesheetsParsed[j])) = keyOf(r)

\* date and location of a missed entry or of a record
DateAndLocation(r) == <<TextOf(r, K_date), TextOf(r, K_location)>>

\* those of the missed records that are the employee's, in their order
OfEmployee(missed, employee) == SelectSeq(missed, LAMBDA r : TextOf(r, K_employee) = employee)

\* the groups are those of the employees of the missed records, and the entries
\* of each group are the employee's missed records in their order
GroupedFrom(missed) ==
    /\ {group.k : group \in RangeOf(missedGroups)}
         = {TextOf(r, K_employee) : r \in RangeOf(missed)}
    /\ \A group \in RangeOf(missedGroups) :
        MapSeq(group.v, DateAndLocation)
          = MapSeq(OfEmployee(missed, group.k), DateAndLocation)

EntryCount(group) == Len(group.v)

\* C14: the groups of the missed-shift report are those of the employees with a
\* missed record, one each, in ascending order of the names; the entries of a
\* group are the employee's missed records in the order of the scheduled file,
\* one entry for every record, records with the same key included; the missed
\* count is the number of entries of all groups
C14_GroupsAndOrder ==
    page = "crossref" =>
        /\ \A missed \in {MissedRecords} : GroupedFrom(missed)
        /\ \A i, j \in 1..Len(missedGroups) :
            i < j => /\ missedGroups[i].k # missedGroups[j].k
                     /\ LocaleCompare(missedGroups[i].k, missedGroups[j].k) <= 0
        /\ missedCount = SumOver(missedGroups, EntryCount)

\* a report with two groups on a scheduled file whose first record is of the
\* employee of the second group
C14_Witness ==
    /\ page = "crossref"
    /\ Len(missedGroups) = 2
    /\ TextOf(MissedRecords[1], K_employee) = missedGroups[2].k

\* the normalized scheduled records that name nothing ignored
KeptScheduled == SelectSeq(MapSeq(scheduledParsed, normalizeRowKeys), LAMBDA r : ~NamesIgnored(r))

\* col is the candidate of highest priority among the column names of the row,
\* or null when the row has none of them
ChosenFrom(col, row, candidates) ==
    IF \A i \in 1..Len(candidates) : ~ObjHas(row, candidates[i])
    THEN col = Null
    ELSE \E i \in 1..Len(candidates) :
            /\ col = Str(candidates[i])
            /\ ObjHas(row, candidates[i])
            /\ \A j \in 1..Len(candidates) : ObjHas(row, candidates[j]) => i <= j

K_start == <<"s","t","a","r","t">>
K_end == <<"e","n","d">>

\* the entry has the start and end of the record, read from the columns found
CarriesTimes(entry, r) ==
    /\ ObjHas(entry, K_start) /\ ObjGet(entry, K_start) = ObjGet(r, startCol.s)
    /\ ObjHas(entry, K_end) /\ ObjGet(entry, K_end) = ObjGet(r, endCol.s)

\* every entry of the groups has the start and end of its record when both
\* columns were found, and neither when one or none was found
TimesFrom(missed) ==
    \A group \in RangeOf(missedGroups) :
        \A records \in {OfEmployee(missed, group.k)} :
            /\ Len(group.v) = Len(records)
            /\ \A j \in 1..Len(group.v) :
                IF startCol # Null /\ endCol # Null
                THEN CarriesTimes(group.v[j], records[j])
                ELSE ~ObjHas(group.v[j], K_start) /\ ~ObjHas(group.v[j], K_end)

\* the columns are those chosen from the first of the records kept, none when
\* no record is kept
ColumnsFrom(kept) ==
    IF kept = <<>> THEN startCol = Null /\ endCol = Null
    ELSE /\ ChosenFrom(startCol, kept[1], SCHEDULED_START_CANDIDATES)
         /\ ChosenFrom(endCol, kept[1], SCHEDULED_END_CANDIDATES)

\* C15: start and end column are each the first candidate, in the order of the
\* candidate list, that is a column name of the first scheduled record left by
\* the ignore filter, and none when no record is left; every missed entry has the
\* start and end values of its record exactly when both columns were found, and
\* neither of them when one or none was found
C15_StartAndEndColumns ==
    page = "crossref" =>
        /\ \A kept \in {KeptScheduled} : ColumnsFrom(kept)
        /\ \A missed \in {MissedRecords} : TimesFrom(missed)

\* a report with a missed shift on a scheduled file whose first record is ignored
\* and whose columns start, start_time and end come in this order: start_time is
\* the start column
C15_Witness ==
    /\ page = "crossref"
    /\ missedCount > 0
    /\ NamesIgnored(normalizeRowKeys(scheduledParsed[1]))
    /\ ObjHas(KeptScheduled[1], K_start)
    /\ startCol = Str(SCHEDULED_START_CANDIDATES[1])
    /\ endCol = Str(K_end)

\* the trimmed string value of a raw field: the empty string when it is missing
TrimmedValue(v) == Str(Trim(IF v = Undefined THEN <<>> ELSE v.s))

\* C16: normalizeRowKeys loses no field: for every entry of the raw record, the
\* normalized record holds the trimmed value of the entry under its trimmed,
\* lower-cased name, also when column names of the raw record differ in letter
\* case or surrounding white space only
C16_NoFieldLost ==
    page = "normalized" =>
        \A i \in 1..Len(fnIn) :
            ObjGet(fnOut, ToLowerCase(Trim(fnIn[i].k))) = TrimmedValue(fnIn[i].v)

\* the shifts that passed the filters of the report and have cost above tips
AboveTips == SelectSeq(PassedShifts, LAMBDA r : r.cost > r.tips)

\* the number of these shifts of the employee
AboveTipsCount(employee) ==
    Cardinality({i \in 1..Len(AboveTips) : AboveTips[i].employee = employee})

\* C17: only shifts with cost strictly above tips contribute to a payout report:
\* the shifts of the totals, the shifts of every summary row and the rows of the
\* per-location snapshot are those with cost > tips, a shift with cost equal to
\* or below tips adds nothing; each of them has amount_owed >= cost - tips > 0,
\* and every summary row has total_owed > 0
C17_OnlyCostAboveTips ==
    Reported =>
        /\ totals.shifts = FromInt(Len(AboveTips))
        /\ \A i \in 1..Len(summaryRows) :
            /\ summaryRows[i].ShiftsThatWereOwed
                 = FromInt(AboveTipsCount(summaryRows[i].Employee))
            /\ summaryRows[i].TotalAmountOwed > 0
        /\ \A i \in 1..Len(AboveTips) :
            /\ FSub(AboveTips[i].cost, AboveTips[i].tips) > 0
            /\ AmountOwed(AboveTips[i]) >= FSub(AboveTips[i].cost, AboveTips[i].tips)
        /\ page = "loc" =>
            /\ Len(DATA_ROWS) = Len(AboveTips)
            /\ \A i \in 1..Len(DATA_ROWS) :
                /\ DATA_ROWS[i].employee = AboveTips[i].employee
                /\ DATA_ROWS[i].amountOwed >= FSub(AboveTips[i].cost, AboveTips[i].tips)
        /\ (totals.amount = 0) <=> (AboveTips = <<>>)

\* a report with a summary row on an upload that holds a shift with cost equal to
\* tips which passed the filters
C17_Witness ==
    /\ Reported
    /\ summaryRows # <<>>
    /\ \E i \in 1..Len(PassedShifts) : PassedShifts[i].cost = PassedShifts[i].tips

\* how often x occurs in seq
Occurrences(seq, x) == Cardinality({i \in 1..Len(seq) : seq[i] = x})

\* b holds the rows of a, each as often as a does: a permutation, values unchanged
SameRows(a, b) ==
    /\ Len(a) = Len(b)
    /\ \A i \in 1..Len(a) : Occurrences(a, a[i]) = Occurrences(b, a[i])

\* a step that is a click on one of the column headers
HeaderClick == \E key \in SortKeys : Click(key)

\* C18: a click on a column header of a payout report, whatever the key and the
\* direction it leads to, re-orders the rows on display and nothing else: the rows
\* after the click are a permutation of the rows before it, and the totals, the
\* footer, the snapshot and the location selection are unchanged
C18_ClicksPermuteRows ==
    [][HeaderClick =>
        /\ SameRows(tbody, tbody')
        /\ SameRows(tbody', MapSeq(IF page = "calc" THEN summaryRows
                                   ELSE Recompute(DATA_ROWS,
                                            selectedLocations(DATA_LOCATIONS, checked)).summary,
                                   TableRow))
        /\ <<summaryRows, totals, footer, checked, DATA_ROWS, DATA_LOCATIONS>>'
             = <<summaryRows, totals, footer, checked, DATA_ROWS, DATA_LOCATIONS>>]_vars

\* a report with two rows that clicks have brought into an order that is not the
\* order of the server's summary, under a sort key other than the employee
C18_Witness ==
    /\ Reported
    /\ Len(tbody) = 2
    /\ currentKey # "employee"
    /\ page = "calc" => tbody # MapSeq(summaryRows, TableRow)
    /\ page = "loc" => checked = 1..Len(DATA_LOCATIONS) /\ tbody # MapSeq(summaryRows, TableRow)

\* what recompute() gives for the snapshot and the boxes checked now
OfSelection == Recompute(DATA_ROWS, selectedLocations(DATA_LOCATIONS, checked))

\* C19: on the per-location report the snapshot is the one the server made of the
\* owed shifts of the upload, whatever events came since; the rows and the totals
\* on display are those of the locations selected now, whatever was selected
\* before; with every location selected they are the server's summary rows and
\* totals, and with none selected there is no row and the totals are zero
C19_SelectionOnly ==
    page = "loc" =>
        /\ DATA_ROWS = SnapshotOf(ClientRows(OwedShifts))
        /\ SameRows(tbody, MapSeq(OfSelection.summary, TableRow))
        /\ footer = OfSelection.totals
        /\ checked = 1..Len(DATA_LOCATIONS) =>
            /\ SameRows(tbody, MapSeq(summaryRows, TableRow))
            /\ footer = totals
        /\ checked = {} => tbody = <<>> /\ footer = NoTotals

\* a per-location report after a change of the selection: some boxes checked,
\* others not, rows on display, and totals that are no longer the server's
C19_Witness ==
    /\ page = "loc"
    /\ checked # {}
    /\ checked # 1..Len(DATA_LOCATIONS)
    /\ tbody # <<>>
    /\ footer # totals

\* the rows are in the order of the key and the direction
Sorted(rows, key, dir) ==
    \A i, j \in 1..Len(rows) : i < j => cmp(rows[i], rows[j], key, dir) <= 0

\* a step that changes the selection of locations: a check box, Select All, Clear
SelectionChange == LocAll \/ LocNone \/ \E i \in 1..Len(DATA_LOCATIONS) : CbChange(i)

\* the sort state after a click on the header of key
AfterClick(key) ==
    IF key = currentKey
    THEN /\ currentKey' = currentKey
         /\ currentDir' = (IF currentDir = "asc" THEN "desc" ELSE "asc")
    ELSE /\ currentKey' = key
         /\ currentDir' = "asc"

\* C20: a payout page starts with the sort state (employee, ascending) and its
\* rows in that order; a click on the header of the current key keeps the key and
\* turns the direction, a click on another header makes it the key with direction
\* ascending; a change of the location selection leaves key and direction as
\* they are and shows the recomputed rows in the order of that key and direction
C20_SortState ==
    [][/\ (page = "none" /\ Reported') =>
            /\ currentKey' = "employee" /\ currentDir' = "asc"
            /\ Sorted(tbody', "employee", "asc")
       /\ \A key \in SortKeys : Click(key) => AfterClick(key)
       /\ SelectionChange =>
            /\ currentKey' = currentKey /\ currentDir' = currentDir
            /\ Sorted(tbody', currentKey, currentDir)
            /\ SameRows(tbody', MapSeq(Recompute(DATA_ROWS,
                                           selectedLocations(DATA_LOCATIONS, checked')).summary,
                                       TableRow))]_vars

\* a per-location report with two rows in descending order of the names and a
\* box that is not checked: a click and a change of the selection have acted
C20_Witness ==
    /\ page = "loc"
    /\ checked # 1..Len(DATA_LOCATIONS)
    /\ currentKey = "employee" /\ currentDir = "desc"
    /\ Len(tbody) = 2
    /\ LocaleCompare(tbody[1].employee, tbody[2].employee) > 0

====
